---- MODULE Spec2Model ----
(***************************************************************************)
(* Batch test execution engine of src/src/api/routes/executions.py.        *)
(*                                                                         *)
(* The engine runs on one asyncio event loop.  Every action below is one   *)
(* event-loop step: the code that runs from the resumption of a coroutine  *)
(* (or the arrival of a request) to its next real suspension point         *)
(* (asyncio.sleep, a network call, a blocked semaphore acquire, gather).   *)
(* An await of a coroutine that does not suspend (get_test_case, a call of *)
(* execute_single_test for an unknown id) is part of the same step.        *)
(*                                                                         *)
(* BatchExecutionRequest and ExecutionStatus are imported from             *)
(* src/models/schemas.py, which does not define them.  The validation of a *)
(* request (ValidRequest) follows spec.md: one of the three strategies and *)
(* concurrent_limit >= 1; retry_count is drawn >= 0.  The status names are *)
(* those the code uses (PENDING, RUNNING, COMPLETED, FAILED, STOPPED).     *)
(* MOCK_MODE is True in the source; both settings are explored, real HTTP  *)
(* with shorter id lists.  The test-case store changes under SpecDelete    *)
(* only.  Spec has one execution; SpecFair adds the fairness of the event  *)
(* loop; SpecApi has two executions and every handler of the interface.    *)
(***************************************************************************)
EXTENDS Integers, Sequences, FiniteSets, TLC

VARIABLES
    executions_db,   \* executions.py:25  execution_id -> TestBatchExecution
    sched,           \* execution_id -> the background task execute_batch_tests and its coroutines
    test_cases_db,   \* test_cases.py:16  test_case_id -> test case dict
    MOCK_MODE,       \* executions.py:20
    now,             \* datetime.now() as a logical clock: it ticks when a result is stamped after a wait
    stop_honoured,   \* history: the executions for which stop_execution reached line 210
    response,        \* what the step returned to its HTTP caller (NoResponse: a background step)
    uuids            \* the execution ids uuid4() can hand out in this run

vars == <<executions_db, sched, test_cases_db, MOCK_MODE, now, stop_honoured,
          response, uuids>>

-----------------------------------------------------------------------------
(* Bounds of the model *)

MaxIds == 2        \* longest test_case_ids list of a request in mock mode
MaxRealIds == 1    \* longest test_case_ids list of a request under real HTTP
MaxLimit == 2      \* largest concurrent_limit of a request
MaxRetry == 1      \* largest retry_count of a request

\* the execution ids uuid4() hands out
Uuids == {"u1"}

\* the same for a run with two executions
PairUuids == {"u1", "u2"}

\* an execution id no execution has
AbsentUuids == {"u0"}

\* test-case ids no test case has
UnknownIds == {4}

None == <<>>
Some(v) == <<v>>

-----------------------------------------------------------------------------
(* Data *)

ExecutionStatus == {"pending", "running", "completed", "failed", "stopped"}

TestStatus == {"passed", "failed", "error", "skipped"}

Strategies == {"parallel", "serial", "mixed"}

\* the test cases of the store: priority, whether the URL contains "418",
\* expected_status and the keys of expected_response
TestCases ==
    (1 :> [id |-> 1, priority |-> "high", url418 |-> FALSE, is_active |-> TRUE,
           expected_status |-> 200, expected_response |-> {"id"}])
    @@ (2 :> [id |-> 2, priority |-> "critical", url418 |-> TRUE,
              is_active |-> TRUE,
              expected_status |-> 418, expected_response |-> {}])
    @@ (3 :> [id |-> 3, priority |-> "medium", url418 |-> TRUE,
              is_active |-> TRUE,
              expected_status |-> 200, expected_response |-> {}])

RequestIds == DOMAIN TestCases \cup UnknownIds

\* the id lists a request may carry (duplicates allowed)
IdLists == UNION {[1..n -> RequestIds] : n \in 0..MaxIds}

\* the keys of the mock response (executions.py:474-482)
MockKeys == {"url", "method", "args", "json", "headers", "origin", "success"}

\* what one Target Invoker call can come back with under real HTTP: a response
\* (status code, keys of its JSON body) or an exception
Responses ==
    {[raised |-> FALSE, status_code |-> c, keys |-> k] :
        c \in {200, 404, 418}, k \in {{}, {"id"}}}
    \cup {[raised |-> TRUE, status_code |-> 0, keys |-> {}]}

\* what an attempt was, by the rules of lines 531-551: "raise", or the response
\* compared with the test case ("mismatch": other status code; "invalid": same
\* status code and a declared key missing; "ok")
Classify(tc, resp) ==
    IF resp.raised THEN "raise"
    ELSE IF resp.status_code # tc.expected_status THEN "mismatch"
    ELSE IF \E key \in tc.expected_response : key \notin resp.keys THEN "invalid"
    ELSE "ok"

\* get_test_case: test_cases_db.get(id) is truthy
Resolves(id) == id \in DOMAIN test_cases_db

IsHigh(id) == test_cases_db[id].priority \in {"high", "critical"}

NullResult ==
    [test_case_id |-> 0, status |-> "none", error_message |-> None,
     started_at |-> 0, completed_at |-> None]

NewTask(id) ==
    [test_case_id |-> id, state |-> "new", attempt |-> 0, calls |-> 0,
     outs |-> <<>>, result |-> NullResult]

\* a Retry Wrapper call that has begun its attempts and has not appended yet:
\* awaiting the response, or in one of the two asyncio.sleep(1) of the loop
InFlightStates == {"attempt", "sleep564", "sleep578"}

-----------------------------------------------------------------------------
(* Pure steps on st = [ex |-> the TestBatchExecution, run |-> its background task] *)

Count(results, status) ==
    Cardinality({k \in 1..Len(results) : results[k].status = status})

SummaryCompletedIsTotal(ex) ==
    LET total == Len(ex.test_case_ids)
        passed == Count(ex.results, "passed")
    IN  [total |-> total,
         completed |-> total,
         passed |-> passed,
         failed |-> Count(ex.results, "failed"),
         error |-> Count(ex.results, "error"),
         skipped |-> Count(ex.results, "skipped"),
         pass_rate |-> IF total > 0 THEN (passed * 100) \div total ELSE 0]

\* the summary dict of lines 152-173 and 266-286 (pass_rate floored to an integer)
Summary(ex) ==
    LET total == Len(ex.test_case_ids)
        completed == Len(ex.results)
        passed == Count(ex.results, "passed")
    IN  [total |-> total,
         completed |-> completed,
         passed |-> passed,
         failed |-> Count(ex.results, "failed"),
         error |-> Count(ex.results, "error"),
         skipped |-> Count(ex.results, "skipped"),
         pass_rate |-> IF completed > 0 THEN (passed * 100) \div completed ELSE 0]

HasFailedAnyResult(results) == results # <<>>

HasFailedIgnoringErrors(results) ==
    \E k \in 1..Len(results) : results[k].status = "failed"

\* line 260
HasFailed(results) ==
    \E k \in 1..Len(results) : results[k].status \in {"failed", "error"}

\* execute_batch_tests after the strategy returned: lines 254-290
Finalize(st, t) ==
    IF st.ex.status # "stopped"
    THEN [ex |-> [st.ex EXCEPT
                    !.status = IF HasFailed(st.ex.results) THEN "failed" ELSE "completed",
                    !.completed_at = Some(t),
                    !.summary = Some(Summary(st.ex))],
          run |-> [st.run EXCEPT !.pc = "done"]]
    ELSE [ex |-> st.ex, run |-> [st.run EXCEPT !.pc = "done"]]

FinishTestUnlessStopped(st, i, t) ==
    LET r == [st.run.tasks[i].result EXCEPT !.completed_at = Some(t)]
    IN  [ex |-> [st.ex EXCEPT !.results =
                    IF st.ex.status = "stopped" THEN @ ELSE Append(@, r)],
         run |-> [st.run EXCEPT !.tasks[i].state = "done", !.tasks[i].result = r]]

FinishTestReplacing(st, i, t) ==
    LET r == [st.run.tasks[i].result EXCEPT !.completed_at = Some(t)]
    IN  [ex |-> [st.ex EXCEPT !.results = <<r>>],
         run |-> [st.run EXCEPT !.tasks[i].state = "done", !.tasks[i].result = r]]

FinishTestPrepending(st, i, t) ==
    LET r == [st.run.tasks[i].result EXCEPT !.completed_at = Some(t)]
    IN  [ex |-> [st.ex EXCEPT !.results = <<r>> \o @],
         run |-> [st.run EXCEPT !.tasks[i].state = "done", !.tasks[i].result = r]]

\* execute_single_test, lines 580-586: stamp and append the result
FinishTest(st, i, t) ==
    LET r == [st.run.tasks[i].result EXCEPT !.completed_at = Some(t)]
    IN  [ex |-> [st.ex EXCEPT !.results = Append(@, r)],
         run |-> [st.run EXCEPT !.tasks[i].state = "done", !.tasks[i].result = r]]

ExecuteSingleTestStartUnknownFailed(st, i, t) ==
    LET id == st.run.tasks[i].test_case_id IN
    IF ~Resolves(id)
    THEN LET r == [test_case_id |-> id, status |-> "failed",
                   error_message |-> Some("mismatch"),
                   started_at |-> t, completed_at |-> Some(t)]
         IN  [ex |-> [st.ex EXCEPT !.results = Append(@, r)],
              run |-> [st.run EXCEPT !.tasks[i].state = "done", !.tasks[i].result = r]]
    ELSE [ex |-> st.ex,
          run |-> [st.run EXCEPT !.tasks[i] =
                    [@ EXCEPT !.state = "attempt", !.attempt = 0, !.calls = 1,
                              !.result = [test_case_id |-> id, status |-> "skipped",
                                          error_message |-> None,
                                          started_at |-> t, completed_at |-> None]]]]

\* execute_single_test from its call to its first suspension, lines 396-466 / 508:
\* an unknown id appends an error result and returns; otherwise the placeholder
\* result is built and the first attempt is sent
ExecuteSingleTestStart(st, i, t) ==
    LET id == st.run.tasks[i].test_case_id IN
    IF ~Resolves(id)
    THEN LET r == [test_case_id |-> id, status |-> "error",
                   error_message |-> Some("not_found"),
                   started_at |-> t, completed_at |-> Some(t)]
         IN  [ex |-> [st.ex EXCEPT !.results = Append(@, r)],
              run |-> [st.run EXCEPT !.tasks[i].state = "done", !.tasks[i].result = r]]
    ELSE [ex |-> st.ex,
          run |-> [st.run EXCEPT !.tasks[i] =
                    [@ EXCEPT !.state = "attempt", !.attempt = 0, !.calls = 1,
                              !.result = [test_case_id |-> id, status |-> "skipped",
                                          error_message |-> None,
                                          started_at |-> t, completed_at |-> None]]]]

\* the mock branch, lines 469-500: the verdict looks at the status code only,
\* and the loop is left whatever the verdict
MockVerdict(st, i, o, t) ==
    LET st1 == [st EXCEPT !.run.tasks[i].outs = Append(@, o),
                          !.run.tasks[i].result =
                             IF o = "mismatch"
                             THEN [@ EXCEPT !.status = "failed",
                                            !.error_message = Some("mismatch")]
                             ELSE [@ EXCEPT !.status = "passed"]]
    IN  FinishTest(st1, i, t)

AfterFailedResponseRetrying(st, i, t) ==
    IF st.run.tasks[i].attempt < st.ex.retry_count
    THEN [st EXCEPT !.run.tasks[i].state = "sleep578"]
    ELSE FinishTest(st, i, t)

\* a non-passed response with attempts left: lines 562-568 sleep one second
\* and then leave the loop
AfterFailedResponse(st, i, t) ==
    IF st.run.tasks[i].attempt < st.ex.retry_count
    THEN [st EXCEPT !.run.tasks[i].state = "sleep564"]
    ELSE FinishTest(st, i, t)

AfterExceptionNoRetry(st, i, t) == FinishTest(st, i, t)

\* the except branch, lines 570-578: sleep and loop on while attempts remain
AfterException(st, i, t) ==
    IF st.run.tasks[i].attempt < st.ex.retry_count
    THEN [st EXCEPT !.run.tasks[i].state = "sleep578"]
    ELSE FinishTest(st, i, t)

RealVerdictRaiseUnrecorded(st, i, o, t) ==
    LET st0 == [st EXCEPT !.run.tasks[i].outs = Append(@, o)] IN
    CASE o = "ok" ->
           FinishTest([st0 EXCEPT !.run.tasks[i].result.status = "passed"], i, t)
      [] o = "invalid" ->
           AfterFailedResponse(
             [st0 EXCEPT !.run.tasks[i].result.status = "failed",
                         !.run.tasks[i].result.error_message = Some("validation")], i, t)
      [] o = "mismatch" ->
           AfterFailedResponse(
             [st0 EXCEPT !.run.tasks[i].result.status = "failed",
                         !.run.tasks[i].result.error_message = Some("mismatch")], i, t)
      [] OTHER -> AfterException(st0, i, t)

\* the real-HTTP branch, lines 503-578, from the return of the client call
RealVerdict(st, i, o, t) ==
    LET st0 == [st EXCEPT !.run.tasks[i].outs = Append(@, o)] IN
    CASE o = "ok" ->
           FinishTest([st0 EXCEPT !.run.tasks[i].result.status = "passed"], i, t)
      [] o = "invalid" ->
           AfterFailedResponse(
             [st0 EXCEPT !.run.tasks[i].result.status = "failed",
                         !.run.tasks[i].result.error_message = Some("validation")], i, t)
      [] o = "mismatch" ->
           AfterFailedResponse(
             [st0 EXCEPT !.run.tasks[i].result.status = "failed",
                         !.run.tasks[i].result.error_message = Some("mismatch")], i, t)
      [] OTHER ->
           AfterException(
             [st0 EXCEPT !.run.tasks[i].result.status = "error",
                         !.run.tasks[i].result.error_message = Some("exception")], i, t)

\* the next iteration of `for attempt in range(retry_count + 1)`: one more
\* Target Invoker call
NextAttempt(st, i) ==
    [st EXCEPT !.run.tasks[i].state = "attempt",
               !.run.tasks[i].attempt = @ + 1,
               !.run.tasks[i].calls = @ + 1]

ReleaseNothing(st) == st

\* execute_test_with_semaphore: leaving `async with semaphore`
Release(st) == [st EXCEPT !.run.sem = @ + 1]

\* the second half of execute_mixed, lines 367-387, and the body of
\* execute_parallel, lines 307-328: no suspension inside the for loop, so the
\* stop check sees one status for all iterations; then gather
StartGated(st, t) ==
    LET n == Len(st.run.tasks)
        gated == {k \in 1..n : k > st.run.nserial}
        st1 == [st EXCEPT !.run.sem = st.ex.concurrent_limit]
    IN  IF st.ex.status = "stopped" \/ gated = {}
        THEN Finalize(st1, t)
        ELSE [st1 EXCEPT !.run.pc = "gather",
                         !.run.tasks = [k \in 1..n |->
                             IF k \in gated
                             THEN [st.run.tasks[k] EXCEPT !.state = "waiting"]
                             ELSE st.run.tasks[k]]]

RECURSIVE RunFrom(_, _, _)
\* the for loops of execute_serial (335-341) and of the high-priority phase of
\* execute_mixed (360-365), from iteration i to the next suspension
RunFrom(st, i, t) ==
    IF i > st.run.nserial \/ st.ex.status = "stopped"
    THEN IF st.ex.execution_strategy = "serial"
         THEN Finalize(st, t)
         ELSE StartGated(st, t)
    ELSE LET st1 == ExecuteSingleTestStart(st, i, t) IN
         IF st1.run.tasks[i].state = "done"
         THEN RunFrom(st1, i + 1, t)
         ELSE [st1 EXCEPT !.run.pc = "loop"]

\* the ids execute_mixed keeps, lines 348-357: unresolved ids are dropped,
\* high/critical first
HighPriority(ids) == SelectSeq(ids, LAMBDA id : Resolves(id) /\ IsHigh(id))
NormalPriority(ids) == SelectSeq(ids, LAMBDA id : Resolves(id) /\ ~IsHigh(id))

RECURSIVE Dedup(_)
Dedup(ids) ==
    IF ids = <<>> THEN <<>>
    ELSE LET front == Dedup(SubSeq(ids, 1, Len(ids) - 1))
             last == ids[Len(ids)]
         IN  IF \E k \in 1..Len(front) : front[k] = last
             THEN front
             ELSE Append(front, last)

PlanWithoutDuplicates(ex) ==
    CASE ex.execution_strategy = "parallel" -> Dedup(ex.test_case_ids)
      [] ex.execution_strategy = "serial" -> ex.test_case_ids
      [] OTHER -> HighPriority(ex.test_case_ids) \o NormalPriority(ex.test_case_ids)

\* the cases a strategy will dispatch, in dispatch order
Plan(ex) ==
    IF ex.execution_strategy \in {"parallel", "serial"}
    THEN ex.test_case_ids
    ELSE HighPriority(ex.test_case_ids) \o NormalPriority(ex.test_case_ids)

NSerialNoHighPhase(ex) ==
    IF ex.execution_strategy = "serial" THEN Len(ex.test_case_ids) ELSE 0

\* how many of them run one after the other, outside the semaphore
NSerial(ex) ==
    CASE ex.execution_strategy = "serial" -> Len(ex.test_case_ids)
      [] ex.execution_strategy = "parallel" -> 0
      [] OTHER -> Len(HighPriority(ex.test_case_ids))

\* execute_batch_tests from its start to the first suspension, lines 233-252
BeginBatch(st, t) ==
    LET plan == Plan(st.ex)
        st1 == [ex |-> [st.ex EXCEPT !.status = "running"],
                run |-> [st.run EXCEPT
                           !.tasks = [k \in 1..Len(plan) |-> NewTask(plan[k])],
                           !.nserial = NSerial(st.ex)]]
    IN  RunFrom(st1, 1, t)

ContinueLosingSlot(st, i, t) ==
    IF st.run.tasks[i].state # "done" \/ i > st.run.nserial THEN st
    ELSE RunFrom(st, i + 1, t)

\* what follows the return of execute_single_test for task i
Continue(st, i, t) ==
    IF st.run.tasks[i].state # "done" THEN st
    ELSE IF i > st.run.nserial THEN Release(st)
    ELSE RunFrom(st, i + 1, t)

-----------------------------------------------------------------------------
(* State machine *)

State(e) == [ex |-> executions_db[e], run |-> sched[e]]

Known == DOMAIN executions_db

\* the body FastAPI sends for a returned APIResponse, and for a raised
\* HTTPException
NoResponse ==
    [op |-> "none", execution_id |-> "", status_code |-> 0, success |-> FALSE,
     data |-> None]

APIResponse(op, e, success, data) ==
    [op |-> op, execution_id |-> e, status_code |-> 200, success |-> success,
     data |-> data]

HTTPException(op, e, status_code) ==
    [op |-> op, execution_id |-> e, status_code |-> status_code,
     success |-> FALSE, data |-> None]

Init ==
    /\ executions_db = <<>>
    /\ sched = <<>>
    /\ test_cases_db = TestCases
    /\ MOCK_MODE \in BOOLEAN
    /\ now = 0
    /\ stop_honoured = {}
    /\ response = NoResponse
    /\ uuids = Uuids

\* the effect of a step of execution e's background task
Put(e, st) ==
    /\ executions_db' = [executions_db EXCEPT ![e] = st.ex]
    /\ sched' = [sched EXCEPT ![e] = st.run]

\* what FastAPI checks before it calls the handler (the parameter
\* `request: BatchExecutionRequest`, line 76): the strategy is one of the
\* three names and concurrent_limit is at least 1
ValidRequest(strategy, ids, limit, retry) ==
    /\ strategy \in Strategies
    /\ limit >= 1

\* a record for a fresh execution and its queued background task, lines 85-108
NewExecution(e, strategy, ids, limit, retry) ==
    [execution_id |-> e, test_case_ids |-> ids,
     concurrent_limit |-> limit, retry_count |-> retry,
     execution_strategy |-> strategy, started_at |-> now,
     status |-> "pending", results |-> <<>>,
     summary |-> None, completed_at |-> None]

\* runs counts the background tasks add_task has queued for the id
NewRun(e) ==
    [pc |-> "queued", tasks |-> <<>>, nserial |-> 0, sem |-> 0,
     runs |-> IF e \in DOMAIN sched THEN sched[e].runs + 1 ELSE 1]

uuid4Repeating == CHOOSE u \in uuids : TRUE

\* str(uuid.uuid4()), line 82: an id no execution has
uuid4 == CHOOSE u \in uuids \ Known : TRUE

Store(e, strategy, ids, limit, retry) ==
    /\ executions_db' = (e :> NewExecution(e, strategy, ids, limit, retry))
                            @@ executions_db
    /\ sched' = (e :> NewRun(e)) @@ sched
    /\ response' = APIResponse("create", e, TRUE, None)
    /\ UNCHANGED <<test_cases_db, MOCK_MODE, now, stop_honoured, uuids>>

create_without_validation(strategy, ids, limit, retry) ==
    /\ uuids \ Known # {}
    /\ Store(uuid4, strategy, ids, limit, retry)

\* POST /batch, lines 74-117: a request that does not validate is answered
\* 422 before the handler runs; otherwise the record is stored as pending and
\* the background task is queued
create_batch_execution(strategy, ids, limit, retry) ==
    /\ uuids \ Known # {}
    /\ IF ValidRequest(strategy, ids, limit, retry)
       THEN Store(uuid4, strategy, ids, limit, retry)
       ELSE /\ response' = HTTPException("create", "", 422)
            /\ UNCHANGED <<executions_db, sched, test_cases_db, MOCK_MODE, now,
                           stop_honoured, uuids>>

stop_execution_everything(e) ==
    /\ IF e \notin Known
       THEN /\ response' = HTTPException("stop", e, 404)
            /\ UNCHANGED <<executions_db, stop_honoured>>
       ELSE IF executions_db[e].status \notin {"pending", "running"}
       THEN /\ response' = APIResponse("stop", e, FALSE, None)
            /\ UNCHANGED <<executions_db, stop_honoured>>
       ELSE /\ executions_db' =
                [x \in Known |->
                    IF executions_db[x].status \in {"pending", "running"}
                    THEN [executions_db[x] EXCEPT !.status = "stopped",
                                                  !.completed_at = Some(now)]
                    ELSE executions_db[x]]
            /\ stop_honoured' = stop_honoured \cup {e}
            /\ response' = APIResponse("stop", e, TRUE, None)
    /\ UNCHANGED <<sched, test_cases_db, MOCK_MODE, now, uuids>>

stop_execution_unknown_refused(e) ==
    /\ IF e \notin Known \/ executions_db[e].status \notin {"pending", "running"}
       THEN /\ response' = APIResponse("stop", e, FALSE, None)
            /\ UNCHANGED <<executions_db, stop_honoured>>
       ELSE /\ executions_db' = [executions_db EXCEPT
                                    ![e].status = "stopped",
                                    ![e].completed_at = Some(now)]
            /\ stop_honoured' = stop_honoured \cup {e}
            /\ response' = APIResponse("stop", e, TRUE, None)
    /\ UNCHANGED <<sched, test_cases_db, MOCK_MODE, now, uuids>>

stop_execution_any_status(e) ==
    /\ IF e \notin Known
       THEN /\ response' = HTTPException("stop", e, 404)
            /\ UNCHANGED <<executions_db, stop_honoured>>
       ELSE /\ executions_db' = [executions_db EXCEPT
                                    ![e].status = "stopped",
                                    ![e].completed_at = Some(now)]
            /\ stop_honoured' = stop_honoured \cup {e}
            /\ response' = APIResponse("stop", e, TRUE, None)
    /\ UNCHANGED <<sched, test_cases_db, MOCK_MODE, now, uuids>>

\* POST /{execution_id}/stop, lines 191-222
stop_execution(e) ==
    /\ IF e \notin Known
       THEN /\ response' = HTTPException("stop", e, 404)
            /\ UNCHANGED <<executions_db, stop_honoured>>
       ELSE IF executions_db[e].status \notin {"pending", "running"}
       THEN /\ response' = APIResponse("stop", e, FALSE, None)
            /\ UNCHANGED <<executions_db, stop_honoured>>
       ELSE /\ executions_db' = [executions_db EXCEPT
                                    ![e].status = "stopped",
                                    ![e].completed_at = Some(now)]
            /\ stop_honoured' = stop_honoured \cup {e}
            /\ response' = APIResponse("stop", e, TRUE, None)
    /\ UNCHANGED <<sched, test_cases_db, MOCK_MODE, now, uuids>>

\* GET /{execution_id}, lines 119-139
get_execution(e) ==
    /\ response' = IF e \notin Known
                   THEN HTTPException("get_execution", e, 404)
                   ELSE APIResponse("get_execution", e, TRUE,
                                    Some(executions_db[e]))
    /\ UNCHANGED <<executions_db, sched, test_cases_db, MOCK_MODE, now,
                   stop_honoured, uuids>>

\* the data of the response of GET /{execution_id}/results, lines 152-183
ResultsData(ex) ==
    [execution_id |-> ex.execution_id, status |-> ex.status,
     summary |-> Summary(ex), results |-> ex.results]

get_execution_results_storing(e) ==
    /\ response' = IF e \notin Known
                   THEN HTTPException("get_execution_results", e, 404)
                   ELSE APIResponse("get_execution_results", e, TRUE,
                                    Some(ResultsData(executions_db[e])))
    /\ executions_db' =
          IF e \notin Known THEN executions_db
          ELSE [executions_db EXCEPT
                   ![e].summary = Some(Summary(executions_db[e]))]
    /\ UNCHANGED <<sched, test_cases_db, MOCK_MODE, now, stop_honoured, uuids>>

\* GET /{execution_id}/results, lines 141-189
get_execution_results(e) ==
    /\ response' = IF e \notin Known
                   THEN HTTPException("get_execution_results", e, 404)
                   ELSE APIResponse("get_execution_results", e, TRUE,
                                    Some(ResultsData(executions_db[e])))
    /\ UNCHANGED <<executions_db, sched, test_cases_db, MOCK_MODE, now,
                   stop_honoured, uuids>>

\* the background task starts: execute_batch_tests, lines 233-252
execute_batch_tests(e) ==
    /\ e \in Known
    /\ sched[e].pc = "queued"
    /\ Put(e, BeginBatch(State(e), now))
    /\ response' = NoResponse
    /\ UNCHANGED <<test_cases_db, MOCK_MODE, now, stop_honoured, uuids>>

\* the response the running mode gives test case tc: the canned one of the mock
\* branch (lines 469-482), or whatever the network does
MockResponse(tc) ==
    [raised |-> FALSE,
     status_code |-> IF tc.url418 THEN 418 ELSE tc.expected_status,
     keys |-> IF tc.url418 THEN {"message"} ELSE MockKeys]

PossibleResponses(tc) == IF MOCK_MODE THEN {MockResponse(tc)} ELSE Responses

AllResponses == Responses \cup {MockResponse(TestCases[id]) : id \in DOMAIN TestCases}

\* an attempt of task i comes back (asyncio.sleep(0.5) of the mock branch, or
\* the client call, or its exception) and execute_single_test runs on.  The
\* ValueError of line 518 (a method the code does not send) is a "raise" too;
\* it is raised without a wait, which only removes interleavings.
AttemptCompletes(e, i, resp) ==
    /\ e \in Known
    /\ i \in 1..Len(sched[e].tasks)
    /\ sched[e].tasks[i].state = "attempt"
    /\ LET tc == test_cases_db[sched[e].tasks[i].test_case_id]
           o == Classify(tc, resp)
           t == now + 1
           st == IF MOCK_MODE THEN MockVerdict(State(e), i, o, t)
                 ELSE RealVerdict(State(e), i, o, t)
       IN  /\ resp \in PossibleResponses(tc)
           /\ now' = IF st.run.tasks[i].state = "done" THEN t ELSE now
           /\ Put(e, Continue(st, i, t))
    /\ response' = NoResponse
    /\ UNCHANGED <<test_cases_db, MOCK_MODE, stop_honoured, uuids>>

\* one of the asyncio.sleep(1) of the retry loop is over
SleepEnds(e, i) ==
    /\ e \in Known
    /\ i \in 1..Len(sched[e].tasks)
    /\ sched[e].tasks[i].state \in {"sleep564", "sleep578"}
    /\ IF sched[e].tasks[i].state = "sleep578"
       THEN /\ Put(e, NextAttempt(State(e), i))
            /\ now' = now
       ELSE /\ Put(e, Continue(FinishTest(State(e), i, now + 1), i, now + 1))
            /\ now' = now + 1
    /\ response' = NoResponse
    /\ UNCHANGED <<test_cases_db, MOCK_MODE, stop_honoured, uuids>>

CanAcquireNoGate(run, i) == TRUE

\* `async with semaphore` (line 392) does not block: a slot is free
CanAcquire(run, i) == run.sem > 0

\* execute_test_with_semaphore, lines 390-393: the gathered task i gets a slot
\* (waiters are served in the order gather started them) and calls
\* execute_single_test
execute_test_with_semaphore(e, i) ==
    /\ e \in Known
    /\ sched[e].pc = "gather"
    /\ i \in 1..Len(sched[e].tasks)
    /\ sched[e].tasks[i].state = "waiting"
    /\ \A j \in 1..(i - 1) : sched[e].tasks[j].state # "waiting"
    /\ CanAcquire(sched[e], i)
    /\ LET st == [State(e) EXCEPT !.run.sem = @ - 1] IN
       Put(e, Continue(ExecuteSingleTestStart(st, i, now), i, now))
    /\ response' = NoResponse
    /\ UNCHANGED <<test_cases_db, MOCK_MODE, now, stop_honoured, uuids>>

GatherReturnsEarly(e) ==
    /\ e \in Known
    /\ sched[e].pc = "gather"
    /\ Put(e, Finalize(State(e), now))
    /\ response' = NoResponse
    /\ UNCHANGED <<test_cases_db, MOCK_MODE, now, stop_honoured, uuids>>

\* asyncio.gather returns (lines 328, 387) and execute_batch_tests finishes
GatherReturns(e) ==
    /\ e \in Known
    /\ sched[e].pc = "gather"
    /\ \A i \in 1..Len(sched[e].tasks) : sched[e].tasks[i].state = "done"
    /\ Put(e, Finalize(State(e), now))
    /\ response' = NoResponse
    /\ UNCHANGED <<test_cases_db, MOCK_MODE, now, stop_honoured, uuids>>

\* the strategies and limits a client may send
RequestStrategies == Strategies \cup {"random"}
RequestLimits == 0..MaxLimit

Next ==
    \/ /\ uuids \ Known # {}
       /\ \E strategy \in RequestStrategies, ids \in IdLists,
             limit \in RequestLimits, retry \in 0..MaxRetry :
               /\ Len(ids) <= (IF MOCK_MODE THEN MaxIds ELSE MaxRealIds)
               /\ create_batch_execution(strategy, ids, limit, retry)
    \/ \E e \in Uuids : stop_execution(e)
    \/ \E e \in Uuids : execute_batch_tests(e)
    \/ \E e \in Uuids, i \in 1..MaxIds, resp \in AllResponses :
            AttemptCompletes(e, i, resp)
    \/ \E e \in Uuids, i \in 1..MaxIds : SleepEnds(e, i)
    \/ \E e \in Uuids, i \in 1..MaxIds : execute_test_with_semaphore(e, i)
    \/ \E e \in Uuids : GatherReturns(e)

Spec == Init /\ [][Next]_vars

\* a step of a background task: the event loop runs every coroutine that is
\* ready, every sleep ends and every client call returns or raises (timeout)
Background ==
    \/ \E e \in Uuids : execute_batch_tests(e)
    \/ \E e \in Uuids, i \in 1..MaxIds, resp \in AllResponses :
            AttemptCompletes(e, i, resp)
    \/ \E e \in Uuids, i \in 1..MaxIds : SleepEnds(e, i)
    \/ \E e \in Uuids, i \in 1..MaxIds : execute_test_with_semaphore(e, i)
    \/ \E e \in Uuids : GatherReturns(e)

SpecFair == Init /\ [][Next]_vars /\ WF_vars(Background)

-----------------------------------------------------------------------------
(* The engine beside the test-case API: test cases may be deleted at any     *)
(* moment of a run.                                                          *)

\* DELETE /test-cases/{test_case_id}, test_cases.py lines 155-177: the entry
\* stays in test_cases_db with is_active = False
delete_test_case(id) ==
    /\ IF id \notin DOMAIN test_cases_db
       THEN /\ response' = HTTPException("delete_test_case", "", 404)
            /\ UNCHANGED test_cases_db
       ELSE /\ test_cases_db' = [test_cases_db EXCEPT ![id].is_active = FALSE]
            /\ response' = APIResponse("delete_test_case", "", TRUE, None)
    /\ UNCHANGED <<executions_db, sched, MOCK_MODE, now, stop_honoured, uuids>>

NextDelete ==
    \/ /\ uuids \ Known # {}
       /\ \E strategy \in RequestStrategies, ids \in IdLists,
             limit \in RequestLimits, retry \in 0..MaxRetry :
               /\ Len(ids) <= MaxRealIds
               /\ create_batch_execution(strategy, ids, limit, retry)
    \/ \E id \in RequestIds : delete_test_case(id)
    \/ Background

SpecDelete == Init /\ [][NextDelete]_vars

-----------------------------------------------------------------------------
(* The HTTP interface with two executions: every handler may be called at    *)
(* any moment, for the id of an execution or for an id no execution has.     *)

\* the requests the clients send in these runs
ApiRequests ==
    {[strategy |-> "parallel", ids |-> <<1>>, limit |-> 1, retry |-> 0],
     [strategy |-> "serial", ids |-> <<4, 1>>, limit |-> 1, retry |-> 0],
     [strategy |-> "mixed", ids |-> <<3>>, limit |-> 2, retry |-> 0]}

ApiUuids == PairUuids \cup AbsentUuids

InitApi ==
    /\ executions_db = <<>>
    /\ sched = <<>>
    /\ test_cases_db = TestCases
    /\ MOCK_MODE = TRUE
    /\ now = 0
    /\ stop_honoured = {}
    /\ response = NoResponse
    /\ uuids = PairUuids

NextApi ==
    \/ \E rq \in ApiRequests :
            create_batch_execution(rq.strategy, rq.ids, rq.limit, rq.retry)
    \/ \E e \in ApiUuids : stop_execution(e)
    \/ \E e \in ApiUuids : get_execution(e)
    \/ \E e \in ApiUuids : get_execution_results(e)
    \/ \E e \in PairUuids : execute_batch_tests(e)
    \/ \E e \in PairUuids, i \in 1..MaxIds, resp \in AllResponses :
            AttemptCompletes(e, i, resp)
    \/ \E e \in PairUuids, i \in 1..MaxIds :
            execute_test_with_semaphore(e, i)
    \/ \E e \in PairUuids : GatherReturns(e)

SpecApi == InitApi /\ [][NextApi]_vars

-----------------------------------------------------------------------------
(* Properties *)

Status(e) == executions_db[e].status
Results(e) == executions_db[e].results
Ids(e) == executions_db[e].test_case_ids
Strategy(e) == executions_db[e].execution_strategy
Tasks(e) == sched[e].tasks
TaskIds(e) == 1..Len(sched[e].tasks)
InFlight(e) == {i \in TaskIds(e) : Tasks(e)[i].state \in InFlightStates}
Done(e) == {i \in TaskIds(e) : Tasks(e)[i].state = "done"}
Begun(task) == task.state \notin {"new", "waiting"}
AllOuts(task, o) ==
    /\ Len(task.outs) >= 1
    /\ \A k \in 1..Len(task.outs) : task.outs[k] = o

\* C1: once the status of an execution is completed or failed, it has as many
\* results as requested test-case ids (any strategy, unresolved ids included).
C1_ResultPerRequestedId ==
    \A e \in Known :
        Status(e) \in {"completed", "failed"} => Len(Results(e)) = Len(Ids(e))

StatusMoves ==
    {<<"pending", "running">>, <<"pending", "stopped">>,
     <<"running", "completed">>, <<"running", "failed">>, <<"running", "stopped">>}

\* C2: an execution is created pending, its status moves only along
\* pending -> running, pending -> stopped, running -> completed/failed/stopped,
\* and a completed, failed or stopped status never changes again.
C2_StatusMachine ==
    [][/\ \A e \in DOMAIN executions_db' \ Known :
             executions_db'[e].status = "pending"
       /\ \A e \in Known :
             \/ executions_db'[e].status = Status(e)
             \/ <<Status(e), executions_db'[e].status>> \in StatusMoves]_vars

\* C3: a stop that is honoured (status pending or running) leaves the status
\* stopped, and from then on the results list of the execution is not appended to.
C3_StopFreezesResults ==
    [][\A e \in Known :
          /\ e \in stop_honoured' \ stop_honoured => executions_db'[e].status = "stopped"
          /\ e \in stop_honoured => executions_db'[e].results = Results(e)]_vars

\* C4: while the status is stopped and the run has begun a case, no Target
\* Invoker call begins for a case that was not already in flight (a case
\* waiting for a semaphore slot is not in flight).
C4_NoDispatchAfterStop ==
    [][\A e \in Known :
          (Status(e) = "stopped" /\ \E j \in TaskIds(e) : Begun(Tasks(e)[j])) =>
             \A i \in TaskIds(e) :
                sched'[e].tasks[i].calls > Tasks(e)[i].calls =>
                   Tasks(e)[i].state \in InFlightStates]_vars

\* C5: at most concurrent_limit Retry Wrapper calls of an execution are in
\* flight, in every state and under every strategy.
C5_ConcurrencyLimit ==
    \A e \in Known :
        Cardinality(InFlight(e)) <= executions_db[e].concurrent_limit

\* the gate is full and a case is queued behind it
C5_Witness ==
    \E e \in Known :
        /\ Strategy(e) = "parallel"
        /\ Cardinality(InFlight(e)) = executions_db[e].concurrent_limit
        /\ \E i \in TaskIds(e) : Tasks(e)[i].state = "waiting"

\* C6: a case whose every attempt came back with a status code other than the
\* expected one was tried retry_count + 1 times and has a failed result.
C6_MismatchIsRetried ==
    \A e \in Known : \A i \in Done(e) :
        AllOuts(Tasks(e)[i], "mismatch") =>
           /\ Tasks(e)[i].calls = executions_db[e].retry_count + 1
           /\ Tasks(e)[i].result.status = "failed"

\* C7: a resolvable case whose every attempt raised was tried exactly
\* retry_count + 1 times and has one recorded result, with status error.
C7_ExceptionsAreRetried ==
    \A e \in Known :
        /\ \A i \in TaskIds(e) :
              Tasks(e)[i].calls <= executions_db[e].retry_count + 1
        /\ \A i \in Done(e) :
              AllOuts(Tasks(e)[i], "raise") =>
                 /\ Tasks(e)[i].calls = executions_db[e].retry_count + 1
                 /\ Tasks(e)[i].result.status = "error"
                 /\ Cardinality({k \in 1..Len(Results(e)) :
                                   Results(e)[k].test_case_id = Tasks(e)[i].test_case_id})
                      = Cardinality({j \in Done(e) :
                                   Tasks(e)[j].test_case_id = Tasks(e)[i].test_case_id})

\* a case that raised on its first attempt and on its retry
C7_Witness ==
    \E e \in Known : \E i \in Done(e) :
        /\ executions_db[e].retry_count >= 1
        /\ AllOuts(Tasks(e)[i], "raise")
        /\ Tasks(e)[i].calls = executions_db[e].retry_count + 1
        /\ \E k \in 1..Len(Results(e)) : Results(e)[k] = Tasks(e)[i].result

HighTasks(e) == {i \in TaskIds(e) : IsHigh(Tasks(e)[i].test_case_id)}
NormalTasks(e) == {i \in TaskIds(e) : ~IsHigh(Tasks(e)[i].test_case_id)}

\* C8: in a mixed execution no low/medium case starts before every
\* high/critical case of the request has its result; a high and a normal case
\* are never in flight together; every normal result started at or after the
\* completion of every high/critical result.
C8_HighBeforeNormal ==
    \A e \in Known :
        (Strategy(e) = "mixed" /\ sched[e].pc # "queued") =>
           /\ \A n \in NormalTasks(e) :
                 Begun(Tasks(e)[n]) =>
                    /\ \A h \in HighTasks(e) : Tasks(e)[h].state = "done"
                    /\ Len(SelectSeq(Results(e), LAMBDA r : IsHigh(r.test_case_id)))
                         = Len(HighPriority(Ids(e)))
           /\ ~(\E h \in HighTasks(e), n \in NormalTasks(e) :
                   h \in InFlight(e) /\ n \in InFlight(e))
           /\ \A a, b \in 1..Len(Results(e)) :
                 (IsHigh(Results(e)[a].test_case_id) /\ ~IsHigh(Results(e)[b].test_case_id))
                    => Results(e)[b].started_at >= Results(e)[a].completed_at[1]

\* a mixed execution with the result of a high/critical and of a normal case
C8_Witness ==
    \E e \in Known :
        /\ Strategy(e) = "mixed"
        /\ \E a, b \in 1..Len(Results(e)) :
              IsHigh(Results(e)[a].test_case_id) /\ ~IsHigh(Results(e)[b].test_case_id)

ResultIds(results) == [k \in 1..Len(results) |-> results[k].test_case_id]
IsPrefix(s, t) == Len(s) <= Len(t) /\ \A k \in 1..Len(s) : s[k] = t[k]

\* C9: the result ids of a serial execution are a prefix of the requested ids
\* in every state; in a mixed execution the high/critical results are in
\* request order and at most one high/critical case is in flight.
C9_RequestOrder ==
    \A e \in Known :
        /\ Strategy(e) = "serial" => IsPrefix(ResultIds(Results(e)), Ids(e))
        /\ Strategy(e) = "mixed" =>
              /\ IsPrefix(SelectSeq(ResultIds(Results(e)), IsHigh), HighPriority(Ids(e)))
              /\ Cardinality(HighTasks(e) \cap InFlight(e)) <= 1

\* a serial execution stopped by the caller, with its first result and not its second
C9_Witness ==
    \E e \in Known :
        /\ Strategy(e) = "serial"
        /\ e \in stop_honoured
        /\ sched[e].pc = "done"
        /\ Len(Ids(e)) = 2 /\ Ids(e)[1] # Ids(e)[2]
        /\ Len(Results(e)) = 1

\* C10: a run that ended with a status other than stopped ended failed exactly
\* when a result is failed or error, and completed otherwise; a run that no
\* stop was honoured for does not end stopped.
C10_FinalStatus ==
    \A e \in Known :
        sched[e].pc = "done" =>
           /\ e \notin stop_honoured => Status(e) # "stopped"
           /\ Status(e) # "stopped" =>
                 Status(e) = IF \E k \in 1..Len(Results(e)) :
                                    Results(e)[k].status \in {"failed", "error"}
                             THEN "failed" ELSE "completed"

\* a finished run whose only flaw is an error result
C10_Witness ==
    \E e \in Known :
        /\ sched[e].pc = "done"
        /\ Status(e) = "failed"
        /\ \E k \in 1..Len(Results(e)) : Results(e)[k].status = "error"
        /\ \A k \in 1..Len(Results(e)) : Results(e)[k].status # "failed"

Terminal == {"completed", "failed", "stopped"}

\* C11: a stop request for an execution whose status is completed, failed or
\* stopped is answered with an error (success = False) and leaves the record -
\* status, results, summary, completed_at - as it was.
C11_StopOnTerminalRefused ==
    [][\A e \in Known :
          (/\ Status(e) \in Terminal
           /\ response'.op = "stop"
           /\ response'.execution_id = e)
          => /\ ~response'.success
             /\ executions_db'[e] = executions_db[e]]_vars

C11_Witness ==
    \E e \in Known :
        /\ response.op = "stop"
        /\ response.execution_id = e
        /\ ~response.success
        /\ Status(e) = "completed"
        /\ Len(Results(e)) >= 1
        /\ executions_db[e].summary # None

RECURSIVE Tally(_, _)
Tally(results, status) ==
    IF results = <<>> THEN 0
    ELSE (IF Head(results).status = status THEN 1 ELSE 0)
         + Tally(Tail(results), status)

ReturnedSummary(e) == ResultsData(executions_db[e]).summary

\* C12: whatever the status of an execution, the summary get_results returns
\* has total = the number of requested ids, completed = the number of results
\* so far, passed/failed/error/skipped = the number of results of that status
\* (they add up to completed), and pass_rate = 0 when completed = 0.
C12_ReturnedSummary ==
    \A e \in Known :
        LET s == ReturnedSummary(e) IN
        /\ s.total = Len(Ids(e))
        /\ s.completed = Len(Results(e))
        /\ s.passed = Tally(Results(e), "passed")
        /\ s.failed = Tally(Results(e), "failed")
        /\ s.error = Tally(Results(e), "error")
        /\ s.skipped = Tally(Results(e), "skipped")
        /\ s.passed + s.failed + s.error + s.skipped = s.completed
        /\ s.completed = 0 => s.pass_rate = 0

C12_Witness ==
    \E e \in Known :
        /\ Status(e) = "running"
        /\ ReturnedSummary(e).total = 2
        /\ ReturnedSummary(e).completed = 1
        /\ ReturnedSummary(e).error = 1
        /\ ReturnedSummary(e).pass_rate = 0

Queries == {"get_execution", "get_execution_results"}

\* the summary as a function of the requested ids and the results alone
FromResults(ids, results) ==
    [total |-> Len(ids),
     completed |-> Len(results),
     passed |-> Tally(results, "passed"),
     failed |-> Tally(results, "failed"),
     error |-> Tally(results, "error"),
     skipped |-> Tally(results, "skipped"),
     pass_rate |-> IF results = <<>> THEN 0
                   ELSE (Tally(results, "passed") * 100) \div Len(results)]

\* C13: get_status and get_results only read: a call leaves every record
\* (status, results, stored summary) and every background task as they were;
\* the summary get_results returns is determined by the requested ids and the
\* results list alone, so that two calls with nothing appended in between
\* return the same summary, as a call that follows a call does.
C13_QueriesOnlyRead ==
    [][response'.op \in Queries =>
          /\ executions_db' = executions_db
          /\ sched' = sched
          /\ (response'.op = "get_execution_results" /\ response'.success)
             => LET e == response'.execution_id IN
                response'.data[1].summary
                    = FromResults(executions_db'[e].test_case_ids,
                                  executions_db'[e].results)
          /\ (/\ response.op = "get_execution_results"
              /\ response'.op = "get_execution_results"
              /\ response'.execution_id = response.execution_id
              /\ response.success
              /\ response'.success)
             => response'.data[1].summary = response.data[1].summary]_vars

C13_Witness ==
    \E e \in Known :
        /\ response.op = "get_execution_results"
        /\ response.execution_id = e
        /\ response.success
        /\ response.data[1].summary.completed = 1
        /\ Status(e) = "running"
        /\ executions_db[e].summary = None

ByExecutionId == {"get_execution", "get_execution_results", "stop"}

\* C14: get_status, get_results and stop called with an execution id the store
\* does not hold fail with not_found (404), store no record for that id and
\* leave every record and every background task as they were.
C14_UnknownExecutionId ==
    [][(response'.op \in ByExecutionId /\ response'.execution_id \notin Known)
          => /\ response'.status_code = 404
             /\ ~response'.success
             /\ executions_db' = executions_db
             /\ sched' = sched]_vars

C14_Witness ==
    /\ response.op = "stop"
    /\ response.execution_id \in AbsentUuids
    /\ response.status_code = 404
    /\ \E e \in Known : Status(e) = "running"
    /\ \E e \in Known : Status(e) = "completed"

ResultsFor(e, id) == {k \in 1..Len(Results(e)) : Results(e)[k].test_case_id = id}
CallsFor(e, id) ==
    {j \in TaskIds(e) : Begun(Tasks(e)[j]) /\ Tasks(e)[j].test_case_id = id}

\* C16: a call of the Retry Wrapper for a test-case id the store does not hold
\* makes no Target Invoker call and appends one result, of status error with
\* the test-case-not-found message, whatever retry_count is.
C16_UnknownTestCase ==
    \A e \in Known : \A j \in TaskIds(e) :
        LET task == Tasks(e)[j]
            id == task.test_case_id
        IN  (Begun(task) /\ ~Resolves(id))
            => /\ task.state = "done"
               /\ task.calls = 0
               /\ Cardinality(ResultsFor(e, id)) = Cardinality(CallsFor(e, id))
               /\ \A k \in ResultsFor(e, id) :
                     /\ Results(e)[k].status = "error"
                     /\ Results(e)[k].error_message = Some("not_found")

C16_Witness ==
    \E e \in Known : \E j \in TaskIds(e) :
        /\ executions_db[e].retry_count = 1
        /\ ~Resolves(Tasks(e)[j].test_case_id)
        /\ Tasks(e)[j].state = "done"
        /\ Cardinality(ResultsFor(e, Tasks(e)[j].test_case_id)) = 1
        /\ Len(Results(e)) = 2

\* a parallel execution of resolvable cases has run to its end, no stop
\* having been honoured
ParallelRunOver(e) ==
    /\ Strategy(e) = "parallel"
    /\ executions_db[e].concurrent_limit >= 1
    /\ \A k \in 1..Len(Ids(e)) : Resolves(Ids(e)[k])
    /\ e \notin stop_honoured
    /\ sched[e].pc = "done"

AllPassed(e) ==
    /\ Status(e) = "completed"
    /\ ReturnedSummary(e).passed = Len(Ids(e))
    /\ ReturnedSummary(e).failed = 0
    /\ ReturnedSummary(e).error = 0
    /\ executions_db[e].summary = Some(ReturnedSummary(e))

\* C17, as stated: a parallel execution of n resolvable cases, any
\* concurrent_limit >= 1, every first attempt returning the expected status
\* code, no stop: the final status is completed, passed = n, failed = error = 0.
C17_ExpectedStatusAllPass ==
    \A e \in Known :
        (/\ ParallelRunOver(e)
         /\ \A j \in TaskIds(e) : Tasks(e)[j].outs[1] \in {"ok", "invalid"})
        => AllPassed(e)

\* C17, amended: the same when every first attempt returns the expected
\* status code and, under real HTTP, a response that holds every declared
\* expected-response key.
C17_FirstAttemptsPassAllPass ==
    \A e \in Known :
        (/\ ParallelRunOver(e)
         /\ \A j \in TaskIds(e) :
               \/ Tasks(e)[j].outs[1] = "ok"
               \/ MOCK_MODE /\ Tasks(e)[j].outs[1] = "invalid")
        => AllPassed(e)

C17_Witness ==
    \E e \in Known :
        /\ ParallelRunOver(e)
        /\ Len(Ids(e)) = 2
        /\ executions_db[e].concurrent_limit = 1
        /\ \A j \in TaskIds(e) : Tasks(e)[j].outs \in {<<"ok">>, <<"invalid">>}
        /\ AllPassed(e)

\* what identifies the record built by create_batch_execution
Built(ex) ==
    <<ex.execution_id, ex.test_case_ids, ex.concurrent_limit, ex.retry_count,
      ex.execution_strategy, ex.started_at>>

\* C18: whatever creates, stops and queries are made, every execution id has
\* one record and one background run: a run is queued once per id and never
\* queued again, the record of an id is never built anew, and no handler
\* touches the background run of an existing execution.
C18_OneRunPerExecution ==
    [][/\ DOMAIN sched' = DOMAIN executions_db'
       /\ \A e \in DOMAIN sched' : sched'[e].runs = 1
       /\ \A e \in Known :
             /\ e \in DOMAIN executions_db'
             /\ Built(executions_db'[e]) = Built(executions_db[e])
             /\ sched[e].pc # "queued" => sched'[e].pc # "queued"
             /\ response'.op # "none" => sched'[e] = sched[e]]_vars

C18_Witness ==
    /\ response.op = "create"
    /\ response.success
    /\ Cardinality(Known) = 2
    /\ \E e \in Known :
          /\ e # response.execution_id
          /\ Status(e) = "running"
          /\ sched[e].pc = "gather"
          /\ sched[e].runs = 1

LastOut(task) == task.outs[Len(task.outs)]

\* C19: when the last attempt of a case returned the expected status code, the
\* recorded status is passed if the response holds every declared
\* expected-response key ("ok": also when none is declared), and failed with
\* the response-validation message if a declared key is missing ("invalid"),
\* in mock mode as under real HTTP.
C19_KeyPresenceDecides ==
    \A e \in Known : \A j \in Done(e) :
        LET task == Tasks(e)[j] IN
        task.outs # <<>> =>
            /\ LastOut(task) = "ok" => task.result.status = "passed"
            /\ LastOut(task) = "invalid" =>
                  /\ task.result.status = "failed"
                  /\ task.result.error_message = Some("validation")

GatedInFlight(e) ==
    {i \in TaskIds(e) : i > sched[e].nserial /\ Tasks(e)[i].state \in InFlightStates}

SlotsHeld(e) == executions_db[e].concurrent_limit - sched[e].sem

\* C21: no slot of the semaphore is leaked: while the gathered calls run, the
\* slots held are as many as the gated calls of execute_single_test in
\* flight, whatever way the earlier calls ended, and when the background task
\* of a parallel or mixed execution has ended all concurrent_limit slots are
\* free.
C21_NoSlotLeaked ==
    \A e \in Known :
        /\ sched[e].pc = "gather" =>
              /\ SlotsHeld(e) = Cardinality(GatedInFlight(e))
              /\ sched[e].sem >= 0
        /\ (sched[e].pc = "done" /\ Strategy(e) # "serial") =>
              /\ GatedInFlight(e) = {}
              /\ SlotsHeld(e) = 0

C21_Witness ==
    \E e \in Known :
        /\ sched[e].pc = "done"
        /\ Strategy(e) = "parallel"
        /\ executions_db[e].concurrent_limit = 1
        /\ SlotsHeld(e) = 0
        /\ Len(Results(e)) = 2
        /\ \E k \in 1..2 : Results(e)[k].status = "error"
        /\ \E k \in 1..2 : Results(e)[k].status \in {"passed", "failed"}

Ended(e) ==
    IF e \in Known
    THEN sched[e].pc = "done" /\ Status(e) \in Terminal
    ELSE FALSE

\* C22: under fair scheduling every created execution (valid request, finite
\* id list, attempts that return or raise) ends: its background task runs to
\* its end and its status is completed, failed or stopped from then on, for
\* each strategy, stopped or not.
C22_EveryExecutionEnds ==
    /\ \A e \in Uuids : (e \in Known) ~> Ended(e)
    /\ [][\A e \in Uuids : Ended(e) => Ended(e)']_vars

C22_Witness ==
    \E e \in Known :
        /\ sched[e].pc = "done"
        /\ Status(e) = "failed"
        /\ executions_db[e].retry_count = 1
        /\ \E j \in TaskIds(e) : Tasks(e)[j].calls = 2

\* case i of execution e is between its first attempt and its result while
\* a stop of e has been honoured
InFlightStopped(e, i) ==
    IF e \in Known /\ e \in stop_honoured /\ i \in TaskIds(e)
    THEN Tasks(e)[i].state \in InFlightStates
    ELSE FALSE

ResultAppended(e, i) ==
    IF e \in Known /\ i \in TaskIds(e)
    THEN /\ Tasks(e)[i].state = "done"
         /\ \E k \in 1..Len(Results(e)) : Results(e)[k] = Tasks(e)[i].result
    ELSE FALSE

\* C23: a stop does not preempt a case in flight: the case goes on to its
\* result, which is appended to the results of the stopped execution, and
\* the results recorded before stay, at the stop and at every later step.
C23_InFlightCaseCompletes ==
    /\ \A e \in Uuids : \A i \in 1..MaxIds :
          InFlightStopped(e, i) ~> ResultAppended(e, i)
    /\ [][\A e \in Known :
             e \in stop_honoured' => IsPrefix(Results(e), Results(e)')]_vars

C23_Witness ==
    \E e \in Known :
        /\ e \in stop_honoured
        /\ Strategy(e) = "serial"
        /\ Status(e) = "stopped"
        /\ Len(Results(e)) = 2
        /\ Results(e)[1].completed_at[1] <= executions_db[e].completed_at[1]
        /\ Results(e)[2].started_at <= executions_db[e].completed_at[1]
        /\ Results(e)[2].completed_at[1] > executions_db[e].completed_at[1]

\* C24: a recorded result holds the outcome of the deciding attempt only: a
\* result whose status is passed has no error message, whatever the earlier
\* attempts of the case did.
C24_PassedHasNoErrorMessage ==
    \A e \in Known : \A k \in 1..Len(Results(e)) :
        Results(e)[k].status = "passed" => Results(e)[k].error_message = None

Occurrences(ids, id) == {k \in 1..Len(ids) : ids[k] = id}

\* C25: duplicate ids are executed independently: when an execution has
\* ended completed or failed, every resolvable test-case id that occurs k
\* times in the request has k results, under each strategy.
C25_DuplicatesRunIndependently ==
    \A e \in Known :
        Status(e) \in {"completed", "failed"} =>
            \A id \in DOMAIN test_cases_db :
                Cardinality(ResultsFor(e, id))
                    = Cardinality(Occurrences(Ids(e), id))

C25_Witness ==
    \E e \in Known :
        /\ Status(e) = "failed"
        /\ Strategy(e) = "mixed"
        /\ Ids(e) = <<3, 3>>
        /\ Cardinality(ResultsFor(e, 3)) = 2

\* C26: a test case deleted through delete_test_case before its dispatch is
\* unresolvable for the engine: the call of execute_single_test for it ends
\* at once with an error result and the test-case-not-found message, and no
\* Target Invoker call is made.
C26_DeletedIsUnresolvable ==
    [][\A e \in Known : \A j \in TaskIds(e) :
          LET id == Tasks(e)[j].test_case_id IN
          (/\ id \in DOMAIN test_cases_db
           /\ ~test_cases_db[id].is_active
           /\ ~Begun(Tasks(e)[j])
           /\ Begun(sched'[e].tasks[j]))
          => /\ sched'[e].tasks[j].state = "done"
             /\ sched'[e].tasks[j].calls = 0
             /\ sched'[e].tasks[j].result.status = "error"
             /\ sched'[e].tasks[j].result.error_message = Some("not_found")]_vars

\* C27: the results list is append-only and bounded: a step keeps the entries
\* recorded so far, in place and unmodified; after every step there is one
\* result for each call of execute_single_test that has returned and none for
\* the others; and the results are never more than the requested ids.
C27_ResultsAppendOnly ==
    [][\A e \in Known :
          LET done == {j \in 1..Len(sched'[e].tasks) :
                          sched'[e].tasks[j].state = "done"}
              results == executions_db'[e].results
          IN  /\ IsPrefix(Results(e), results)
              /\ Len(results) = Cardinality(done)
              /\ \A j \in done :
                    \E k \in 1..Len(results) : results[k] = sched'[e].tasks[j].result
              /\ Len(results) <= Len(executions_db'[e].test_case_ids)]_vars

C27_Witness ==
    \E e \in Known :
        /\ Strategy(e) = "parallel"
        /\ Ids(e) = <<1, 3>>
        /\ ResultIds(Results(e)) = <<3, 1>>

\* C28: no recorded result has status skipped: the placeholder of a
\* resolvable case is overwritten by passed, failed or error before the
\* result is appended, and every appended result has completed_at set.
C28_NoSkippedResult ==
    \A e \in Known : \A k \in 1..Len(Results(e)) :
        /\ Results(e)[k].status \in {"passed", "failed", "error"}
        /\ Results(e)[k].completed_at # None

C28_Witness ==
    \E e \in Known :
        /\ \E j \in InFlight(e) : Tasks(e)[j].result.status = "skipped"
        /\ \E k \in 1..Len(Results(e)) :
              /\ Resolves(Results(e)[k].test_case_id)
              /\ Results(e)[k].status = "failed"

\* C29: the stored summary is absent while the status is pending, running or
\* stopped; once the status is completed or failed, status and results no
\* longer change and the stored summary is the one get_results computes, in
\* every later state.
C29_StoredSummary ==
    [][\A e \in DOMAIN executions_db' :
          LET ex == executions_db'[e] IN
          /\ ex.status \in {"pending", "running", "stopped"} => ex.summary = None
          /\ ex.status \in {"completed", "failed"} =>
                ex.summary = Some(ResultsData(ex).summary)
          /\ (e \in Known /\ Status(e) \in {"completed", "failed"}) =>
                /\ ex.status = Status(e)
                /\ ex.results = Results(e)
                /\ ex.summary = executions_db[e].summary]_vars

C29_Witness ==
    \E e \in Known :
        /\ Status(e) = "failed"
        /\ executions_db[e].summary # None
        /\ executions_db[e].summary[1].completed = 2
        /\ executions_db[e].summary[1].passed = 1
        /\ executions_db[e].summary[1].pass_rate = 50
        /\ response.op = "stop"
        /\ ~response.success

Requested(e) == {Ids(e)[k] : k \in 1..Len(Ids(e))}

\* every result of an execution carries an id its request holds, and the
\* slots of its semaphore are held by its own gated calls
OwnResultsAndSlots ==
    \A e \in Known :
        /\ \A k \in 1..Len(Results(e)) : Results(e)[k].test_case_id \in Requested(e)
        /\ sched[e].pc = "gather" =>
              SlotsHeld(e) = Cardinality(GatedInFlight(e))

\* C30: executions are isolated: a step that changes the record or the
\* background task of one execution (a stop, an append, a finalization)
\* leaves the record and the background task of every other execution as
\* they were; every result of an execution carries an id it requested, and
\* its semaphore slots are held by its own calls only.
C30_ExecutionsIsolated ==
    [][/\ \A a \in Known : \A b \in Known \ {a} :
             (executions_db'[a] # executions_db[a] \/ sched'[a] # sched[a])
             => (executions_db'[b] = executions_db[b] /\ sched'[b] = sched[b])
       /\ OwnResultsAndSlots']_vars

C30_Witness ==
    \E a \in Known : \E b \in Known \ {a} :
        /\ Strategy(a) = "parallel" /\ Strategy(b) = "parallel"
        /\ executions_db[a].concurrent_limit = 1
        /\ executions_db[b].concurrent_limit = 1
        /\ SlotsHeld(a) = 1
        /\ Status(a) = "stopped"
        /\ InFlight(b) # {}
        /\ Status(b) = "running"

====
